---- MODULE Spec2Model ----
(***************************************************************************)
(* Model of the parallel ingestion / merge / cache pipeline of             *)
(* get_data_functions.py: get_flux_data (the scheduler, the merger and the *)
(* pickle cache) and get_datafile (the per-day worker process).            *)
(*                                                                         *)
(* Strings the code slices, partitions or searches (file names, paths,     *)
(* version tags) are sequences of tokens; a token is a piece of text no    *)
(* operation of the code splits.  A pandas DataFrame is a record of its    *)
(* rows (in index order) and its set of columns.                           *)
(***************************************************************************)
EXTENDS Integers, Sequences, FiniteSets, TLC

\* ------------------------------------------------------------------ bounds
MaxDays    == 3     \* longest day range [1 .. MaxDays]
MaxThreads == 2     \* largest nthreads
MaxEntries == 2     \* files in the cache directory tree before the first call

Days == 1 .. MaxDays

\* ------------------------------------------------------------ text helpers
None    == <<"None">>          \* Python's None where a string is expected
Unknown == <<"?">>             \* code_version = "?"

Min(a, b) == IF a <= b THEN a ELSE b

\* s[0:3]
Slice03(s) == SubSeq(s, 1, Min(3, Len(s)))

\* key in name (substring test)
Contains(name, key) ==
    \E i \in 1 .. (Len(name) + 1) :
        /\ i + Len(key) - 1 <= Len(name)
        /\ SubSeq(name, i, i + Len(key) - 1) = key

\* position of the last tok in s, 0 if there is none
LastIndexOf(s, tok) ==
    LET hits == {i \in 1 .. Len(s) : s[i] = tok}
    IN  IF hits = {} THEN 0 ELSE CHOOSE i \in hits : \A j \in hits : j <= i

\* s.rpartition(tok): <<head, separator, tail>>
RPartition(s, tok) ==
    LET i == LastIndexOf(s, tok)
    IN  IF i = 0 THEN << <<>>, <<>>, s >>
        ELSE << SubSeq(s, 1, i - 1), <<tok>>, SubSeq(s, i + 1, Len(s)) >>

\* the file system's view of a path: repeated separators collapse
RECURSIVE Norm(_)
Norm(p) ==
    IF Len(p) < 2 THEN p
    ELSE IF p[1] = "/" /\ p[2] = "/" THEN Norm(Tail(p))
         ELSE <<p[1]>> \o Norm(Tail(p))

StripSlash(p) == IF p # <<>> /\ p[Len(p)] = "/" THEN SubSeq(p, 1, Len(p) - 1) ELSE p

DirName(p)  == RPartition(p, "/")[1]
BaseName(p) == RPartition(p, "/")[3]

\* --------------------------------------------------------------- DataFrame
EmptyDF == [rows |-> <<>>, cols |-> {}]                 \* pd.DataFrame()

DfEmpty(df) == df.rows = <<>> \/ df.cols = {}           \* df.empty

RECURSIVE Concat(_)
\* pd.concat(df_list) of a non-empty list: rows in list order, union of columns
Concat(list) ==
    IF list = <<>> THEN EmptyDF
    ELSE LET rest == Concat(Tail(list))
         IN  [rows |-> Head(list).rows \o rest.rows,
              cols |-> Head(list).cols \cup rest.cols]

\* try: df = pd.concat(df_list) / except: pd.DataFrame()
\* concat of an empty list raises; the handler builds a frame and drops it,
\* so df keeps the value it had
TryConcat(df, df_list) == IF df_list = <<>> THEN df ELSE Concat(df_list)

\* df['time'] = df.index
AddTime(df) == [rows |-> df.rows, cols |-> df.cols \cup {"time"}]

\* ------------------------------------------------------------ source files
FileKinds == {"absent", "corrupt", "a", "b"}

VersionA == <<"2", ".", "1">>
VersionB == <<"2", ".", "3", ".", "7">>

\* xarr_ds.to_dataframe(): the rows of the file of day d
\* xarr_ds.attrs['version']
Version(kind) == IF kind = "b" THEN VersionB ELSE VersionA

station_list == <<"tower", "asfs30", "asfs40", "asfs50">>

\* mutant: the station check lets every name through
ValidStationAny(station) == TRUE

\* any(station == name for name in station_list)
ValidStation(station) == \E i \in 1 .. Len(station_list) : station = station_list[i]

data_dir  == <<"/", "Projects", "/", "MOSAiC", "/">>
data_type == "slow"

LevelTok(level) == ToString(level)

\* today.strftime('%Y%m%d.%H%M%S')
DateStr(d) == <<"2020010" \o ToString(d), ".", "000000">>

\* curr_file of one loop iteration, given the value level_str has there
CurrFile(station, level, level_str, d) ==
    LET subdir   == IF station = "tower"
                    THEN <<"/", LevelTok(level), "_level_", level_str, "/">>
                    ELSE <<"/", LevelTok(level), "_level_", level_str, "_", station, "/">>
        file_str == IF station = "tower"
                    THEN <<"/", "mosflx", station, data_type, ".level", LevelTok(level), ".">>
                         \o DateStr(d) \o <<".nc">>
                    ELSE <<"/", "mos", station, data_type, ".level", LevelTok(level), ".">>
                         \o DateStr(d) \o <<".nc">>
        files_dir == data_dir \o <<station>> \o subdir
    IN  files_dir \o file_str

\* ------------------------------------------------------------------- cache
\* pickled_filename = f'{station}_{level}_{data_type}_df'
PickledFilename(station, level) ==
    <<station, "_", LevelTok(level), "_", data_type, "_", "df">>

\* mutant: the whole version tag in the file name
StorePathFullVersion(pickle_dir, pickled_filename, code_version) ==
    pickle_dir \o <<"/">> \o pickled_filename \o <<"_">> \o code_version
        \o <<".", "pkl">>

\* f"{pickle_dir}/{pickled_filename}_{code_version[0:3]}.pkl"
StorePath(pickle_dir, pickled_filename, code_version) ==
    pickle_dir \o <<"/">> \o pickled_filename \o <<"_">> \o Slice03(code_version)
        \o <<".", "pkl">>

\* filename = pickle_dir + filename
LoadPath(pickle_dir, filename) == pickle_dir \o filename

\* name_words = filename.rpartition('_')[-1].rpartition('.')
\* code_version = f"{name_words[0]}.{name_words[1]}"
ParsedVersion(filename) ==
    LET name_words == RPartition(RPartition(filename, "_")[3], ".")
    IN  name_words[1] \o <<".">> \o name_words[2]

\* a listing of the files on disk: entries [path, data] in the order the
\* file system lists them (os.walk's order within a directory)
OnDisk(files, p) == \E i \in 1 .. Len(files) : files[i].path = Norm(p)

DataAt(files, p) ==
    LET i == CHOOSE j \in 1 .. Len(files) : files[j].path = Norm(p)
    IN  files[i].data

SeqRange(s) == {s[i] : i \in 1 .. Len(s)}

InTree(root, dir) ==
    \/ dir = root
    \/ /\ Len(dir) > Len(root)
       /\ SubSeq(dir, 1, Len(root) + 1) = root \o <<"/">>

RECURSIVE SubDirs(_, _, _, _)
\* the directories below root that hold a file, in listing order
SubDirs(files, root, i, acc) ==
    IF i > Len(files) THEN acc
    ELSE LET d == DirName(files[i].path)
         IN  IF InTree(root, d) /\ d # root /\ d \notin SeqRange(acc)
             THEN SubDirs(files, root, i + 1, Append(acc, d))
             ELSE SubDirs(files, root, i + 1, acc)

\* os.walk(pickle_dir): the directory itself first, then those below it
WalkDirs(files, pickle_dir) ==
    LET root == StripSlash(Norm(pickle_dir))
    IN  <<root>> \o SubDirs(files, root, 1, <<>>)

RECURSIVE FilesIn(_, _, _)
\* the `files` of one os.walk step: the names in directory dir, from entry i on
FilesIn(files, dir, i) ==
    IF i > Len(files) THEN <<>>
    ELSE IF DirName(files[i].path) = dir
         THEN <<BaseName(files[i].path)>> \o FilesIn(files, dir, i + 1)
         ELSE FilesIn(files, dir, i + 1)

\* for filename in files: if pickled_filename in filename: ... break
FirstMatch(names, key) ==
    LET hits == {i \in 1 .. Len(names) : Contains(names[i], key)}
    IN  IF hits = {} THEN 0 ELSE CHOOSE i \in hits : \A j \in hits : i <= j

Miss == [status |-> "miss", df |-> EmptyDF, code_version |-> Unknown, loads |-> <<>>]

RECURSIVE LookupDirs(_, _, _, _, _)
\* the os.walk loop over the remaining directories dirs.  The break leaves
\* the loop over one directory's files only: the walk goes on to the next
\* directory.  read_pickle of a path that is no file raises.
LookupDirs(files, pickle_dir, key, dirs, acc) ==
    IF dirs = <<>> THEN acc
    ELSE LET names == FilesIn(files, Head(dirs), 1)
             m     == FirstMatch(names, key)
         IN  IF m = 0 THEN LookupDirs(files, pickle_dir, key, Tail(dirs), acc)
             ELSE LET filename == LoadPath(pickle_dir, names[m])
                  IN  IF ~OnDisk(files, filename)
                      THEN [acc EXCEPT !.status = "raise"]
                      ELSE LookupDirs(files, pickle_dir, key, Tail(dirs),
                               [status       |-> "hit",
                                df           |-> DataAt(files, filename),
                                code_version |-> ParsedVersion(filename),
                                loads        |-> Append(acc.loads, Norm(filename))])

PickleLookup(files, pickle_dir, key) ==
    LookupDirs(files, pickle_dir, key, WalkDirs(files, pickle_dir), Miss)

\* mutant: the write clears the other files away
ToPickleOnly(entries, path, df) == {[path |-> Norm(path), data |-> df]}

\* df.to_pickle(path) on the set of files on disk: the file at path is
\* created or overwritten, every other file stays
ToPickle(entries, path, df) ==
    {e \in entries : e.path # Norm(path)} \cup {[path |-> Norm(path), data |-> df]}

\* the orders in which the file system may list the files on disk
Listings(entries) ==
    {s \in [1 .. Cardinality(entries) -> entries] :
        \A i, j \in 1 .. Cardinality(entries) : i # j => s[i] # s[j]}

\* ------------------------------------------------------------------- state
VARIABLES
    station, level, pickle_dir,   \* the caller's request, the same in every call
    archive,                      \* source files: path -> kind of file
    disk,                         \* the files of the cache directory tree and beside it
    pc,                           \* where get_flux_data is
    nthreads, ndays,              \* arguments of the current call
    df, code_version, was_pickled, level_str,
    i_day, q_list, qq, df_today, df_list,
    queue, wpc, wfile,            \* per day: its Queue, its worker, the worker's curr_file
    launched, results, taken,     \* history: workers started, (day, table, version) read, gets per queue
    finished,                     \* history: the days in the order their workers ended
    read, written, loads, walk,   \* history: source files read, cache paths written and loaded,
                                  \* the listing the last search of the cache saw
    stored,                       \* history: the [path, data] of the pickles written by earlier calls
    main_pc,                      \* where main of the plotting script is
    istation,                     \* main: the station a loop over sleds_to_plot is at
    q_dict, p_dict, df_dict,      \* main, per station: its Queue, its worker, the frame read
    asfs_cv,                      \* per station: code_version of its get_asfs_data worker
    asfs_launched, asfs_results   \* history of main: <<day, station>> of the workers started,
                                  \* [day, station, table, version] of the messages read

reqVars   == <<station, level, pickle_dir>>
envVars   == <<archive, disk>>
callVars  == <<pc, nthreads, ndays>>
localVars == <<df, code_version, was_pickled, level_str, i_day, q_list, qq, df_today, df_list>>
procVars  == <<queue, wpc, wfile>>
histVars  == <<launched, results, taken, finished, read, written, loads, walk>>
plotVars  == <<main_pc, istation, q_dict, p_dict, df_dict, asfs_cv,
              asfs_launched, asfs_results>>
vars == <<reqVars, envVars, callVars, localVars, procVars, histVars, stored, plotVars>>

NoDir == None                     \* pickle_dir=None

\* the archive of one station: its level-1 files of the days of the model
ArchivePaths(st) == {CurrFile(st, 1, "ingest", d) : d \in Days}

\* os.path.isfile(curr_file)
IsFile(files, path) == path \in DOMAIN files /\ files[path] # "absent"

KindOf(files, path) == IF path \in DOMAIN files THEN files[path] ELSE "absent"

\* the row the reader returns for a file: its time stamp is the file's date
FileDate(path) == path[Len(path) - 3]

\* mutant: a missing file yields a placeholder row
DataFilePlaceholder(files, path) ==
    IF IsFile(files, path)
    THEN << [rows |-> << [t |-> FileDate(path), src |-> files[path]] >>, cols |-> {"temp"}],
            Version(files[path]) >>
    ELSE << [rows |-> << [t |-> FileDate(path), src |-> "absent"] >>, cols |-> {"temp"}],
            None >>

\* get_datafile, up to its two puts: <<data_frame, code_version>>
DataFile(files, path) ==
    IF IsFile(files, path)
    THEN << [rows |-> << [t |-> FileDate(path), src |-> files[path]] >>, cols |-> {"temp"}],
            Version(files[path]) >>
    ELSE << EmptyDF, None >>

\* files a cache directory may hold before the first call, for key k
OldDf(i) == [rows |-> << [t |-> "old", src |-> i] >>, cols |-> {"temp", "time"}]

CacheDir == <<"c">>

Candidates(k) ==
    { [path |-> CacheDir \o <<"/">> \o k \o <<"_">> \o VersionA \o <<".", "pkl">>,
       data |-> OldDf("1")],
      [path |-> CacheDir \o <<"/">> \o k \o <<"_", "9", ".", "9", ".", "pkl">>,
       data |-> OldDf("2")],
      [path |-> CacheDir \o <<"/", "sub", "/">> \o k \o <<"_", "9", ".", "9", ".", "pkl">>,
       data |-> OldDf("3")],
      [path |-> CacheDir \o <<"/", "notes", ".", "txt">>,
       data |-> OldDf("4")],
      [path |-> CacheDir \o k \o <<"_">> \o VersionA \o <<".", "pkl">>,
       data |-> OldDf("5")] }

\* at most n of the candidate files
Disks(k, n) == {S \in SUBSET Candidates(k) : Cardinality(S) <= n}

\* the stations main plots
sleds_to_plot == <<"asfs30", "asfs40", "asfs50">>

Sleds == {sleds_to_plot[i] : i \in 1 .. Len(sleds_to_plot)}

\* main of the plotting script is not running
MainIdle ==
    /\ main_pc = "idle" /\ istation = 0
    /\ q_dict = [st \in Sleds |-> <<>>]
    /\ p_dict = [st \in Sleds |-> "none"]
    /\ df_dict = [st \in Sleds |-> EmptyDF]
    /\ asfs_cv = [st \in Sleds |-> None]
    /\ asfs_launched = <<>> /\ asfs_results = <<>>

InitCall ==
    /\ pc = "idle" /\ nthreads = 1 /\ ndays = 0
    /\ df = EmptyDF /\ code_version = Unknown /\ was_pickled = FALSE
    /\ level_str = "unbound"
    /\ i_day = 0 /\ q_list = <<>> /\ qq = 0 /\ df_today = EmptyDF /\ df_list = <<>>
    /\ queue = [d \in Days |-> <<>>]
    /\ wpc = [d \in Days |-> "none"]
    /\ wfile = [d \in Days |-> <<>>]
    /\ launched = <<>> /\ results = <<>> /\ taken = [d \in Days |-> 0] /\ finished = <<>>
    /\ read = {} /\ written = {} /\ loads = <<>> /\ walk = <<>>
    /\ stored = <<>>

\* a request and the files it meets.  Files no call of the request can reach
\* are left out: source files of an unknown station or of a level whose path
\* is never built, and cache files when no cache directory is given.
InitOf(stations, levels, dirs, uniform) ==
    /\ station \in stations
    /\ level \in levels
    /\ pickle_dir \in dirs
    /\ archive \in [ArchivePaths(station) -> FileKinds]
    /\ uniform => \A p, q \in DOMAIN archive : archive[p] = archive[q]
    /\ (~ValidStation(station) \/ level # 1) =>
           \A p \in DOMAIN archive : archive[p] = "absent"
    /\ disk \in Disks(PickledFilename(station, level), MaxEntries)
    /\ pickle_dir = NoDir => disk = {}
    /\ InitCall
    /\ MainIdle

\* ----------------------------------------------------------------- actions
Resting == pc \in {"idle", "returned", "raised"}

ResetCall ==
    /\ df' = EmptyDF /\ code_version' = Unknown /\ was_pickled' = FALSE
    /\ level_str' = "unbound"
    /\ i_day' = 0 /\ q_list' = <<>> /\ qq' = 0 /\ df_today' = EmptyDF /\ df_list' = <<>>
    /\ queue' = [d \in Days |-> <<>>]
    /\ wpc' = [d \in Days |-> "none"]
    /\ wfile' = [d \in Days |-> <<>>]
    /\ launched' = <<>> /\ results' = <<>> /\ taken' = [d \in Days |-> 0] /\ finished' = <<>>
    /\ read' = {} /\ written' = {} /\ loads' = <<>> /\ walk' = <<>>

\* where the call goes once the cache gave nothing: the day loop, or past it
\* when day_series is empty
EnterLoop(n) == IF n = 0 THEN "merge" ELSE "loop"

\* mutant: a loaded pickle is returned only for an empty range
AfterSearchEmptyRange(hit, n) == IF hit /\ n = 0 THEN "returned" ELSE EnterLoop(n)

\* mutant: the fetch path is entered whether or not a pickle was loaded
AfterSearchAlwaysFetch(hit, n) == EnterLoop(n)

\* line 74, if not was_pickled: a loaded pickle skips the fetch path, down to
\* the return of line 137
AfterSearch(hit, n) == IF hit THEN "returned" ELSE EnterLoop(n)

\* get_flux_data(station, day 1, day n, level, nthreads=k, pickle_dir):
\* lines 49-58, the station check and the locals
Call(n, k) ==
    /\ Resting
    /\ nthreads' = k /\ ndays' = n
    /\ ResetCall
    /\ pc' = IF ~ValidStation(station) THEN "raised"
             ELSE IF pickle_dir # NoDir THEN "lookup"
             ELSE AfterSearch(FALSE, n)
    /\ UNCHANGED <<plotVars, reqVars, envVars, stored>>

\* lines 59-74: the search of the cache directory
Lookup ==
    /\ pc = "lookup"
    /\ \E listing \in Listings(disk) :
       LET r == PickleLookup(listing, pickle_dir, PickledFilename(station, level))
       IN  /\ walk' = listing
           /\ loads' = r.loads
           /\ IF r.status = "raise"
              THEN /\ pc' = "raised"
                   /\ UNCHANGED <<df, code_version, was_pickled>>
              ELSE IF r.status = "hit"
              THEN /\ df' = r.df
                   /\ code_version' = r.code_version
                   /\ was_pickled' = TRUE
                   /\ pc' = AfterSearch(TRUE, ndays)
              ELSE /\ pc' = AfterSearch(FALSE, ndays)
                   /\ UNCHANGED <<df, code_version, was_pickled>>
    /\ UNCHANGED <<plotVars, reqVars, envVars, nthreads, ndays, level_str, i_day, q_list, qq,
                   df_today, df_list, procVars, launched, results, taken, finished, read, written,
                   stored>>

\* mutant: no day ends a batch, the queues are never read
BatchCompleteNever(i, k, today, last) == FALSE

\* mutant: the test of line 81 (i_day % nthreads == 0) in the place of line 104's
BatchCompleteAtStart(i, k, today, last) == i % k = 0 \/ today = last

\* mutant: the last day of the range is not tested
BatchCompleteNoLast(i, k, today, last) == (i + 1) % k = 0

\* if (i_day+1) % nthreads == 0 or today == day_series[-1]
BatchComplete(i, k, today, last) == (i + 1) % k = 0 \/ today = last

\* for i_day, today in enumerate(day_series): the loop goes on, or is over
AfterIteration(i, n) == IF i + 1 < n THEN "loop" ELSE "merge"

\* mutant: a turn of the loop over q_list reads the queue of the turn before
QueueAtPrevious(list, j) == list[IF j > 1 THEN j - 1 ELSE j]

\* mutant: every turn of the loop over q_list reads the first queue
QueueAtFirst(list, j) == list[1]

\* mutant: the queues of a batch are read last-launched first
QueueAtReversed(list, j) == list[Len(list) + 1 - j]

\* for qq in q_list: the queue the loop is at
QueueAt(list, j) == list[j]

\* mutant: the loop over q_list stops one queue early
MoreQueuesOffByOne(list, j) == j + 1 < Len(list)

\* for qq in q_list: whether one more queue follows
MoreQueues(list, j) == j < Len(list)

\* mutant: the first version read is kept
NewVersionFirst(old, cv) == IF old = Unknown /\ cv # None THEN cv ELSE old

\* mutant: the version is overwritten without the test for None
NewVersionAlways(old, cv) == cv

\* if cv!=None: code_version = cv
NewVersion(old, cv) == IF cv # None THEN cv ELSE old

\* if not df_today.empty: df_list.append(df_today.copy())
Collect(list, frame) == IF ~DfEmpty(frame) THEN Append(list, frame) ELSE list

\* lines 79-104: one iteration of the day loop up to the batch test; today is
\* day_series[i_day].  level_str is bound before its use only for level 1.
Launch ==
    /\ pc = "loop"
    /\ LET today == i_day + 1
           ls    == IF level = 1 THEN "ingest" ELSE level_str
       IN  IF ls = "unbound"
           THEN /\ pc' = "raised"
                /\ UNCHANGED <<level_str, i_day, q_list, qq, procVars, launched>>
           ELSE /\ level_str' = IF level = 2 THEN "product"
                                ELSE IF level = 3 THEN "archive" ELSE ls
                /\ wfile' = [wfile EXCEPT ![today] = CurrFile(station, level, ls, today)]
                /\ wpc' = [wpc EXCEPT ![today] = "running"]
                /\ q_list' = Append(q_list, today)
                /\ launched' = Append(launched, today)
                /\ IF BatchComplete(i_day, nthreads, today, ndays)
                   THEN pc' = "get_df" /\ qq' = 1 /\ i_day' = i_day
                   ELSE /\ pc' = AfterIteration(i_day, ndays)
                        /\ qq' = qq
                        /\ i_day' = IF i_day + 1 < ndays THEN i_day + 1 ELSE i_day
                /\ UNCHANGED queue
    /\ UNCHANGED <<plotVars, reqVars, envVars, nthreads, ndays, df, code_version, was_pickled,
                   df_today, df_list, results, taken, finished, read, written, loads, walk, stored>>

\* line 106: df_today = qq.get(), blocking until the queue holds a message
GetTable ==
    /\ pc = "get_df"
    /\ LET q == QueueAt(q_list, qq)
       IN  /\ queue[q] # <<>>
           /\ df_today' = Head(queue[q])
           /\ queue' = [queue EXCEPT ![q] = Tail(queue[q])]
           /\ taken' = [taken EXCEPT ![q] = taken[q] + 1]
    /\ pc' = "get_cv"
    /\ UNCHANGED <<plotVars, reqVars, envVars, nthreads, ndays, df, code_version, was_pickled,
                   level_str, i_day, q_list, qq, df_list, wpc, wfile, launched, results,
                   finished, read, written, loads, walk, stored>>

\* lines 107-112: cv = qq.get(), the version and the list of frames, and at
\* the end of q_list the reset of the batch and the next iteration
GetVersion ==
    /\ pc = "get_cv"
    /\ LET q  == QueueAt(q_list, qq)
           cv == Head(queue[q])
       IN  /\ queue[q] # <<>>
           /\ queue' = [queue EXCEPT ![q] = Tail(queue[q])]
           /\ taken' = [taken EXCEPT ![q] = taken[q] + 1]
           /\ code_version' = NewVersion(code_version, cv)
           /\ df_list' = Collect(df_list, df_today)
           /\ results' = Append(results, [day |-> q, table |-> df_today, version |-> cv])
    /\ IF MoreQueues(q_list, qq)
       THEN /\ qq' = qq + 1 /\ pc' = "get_df"
            /\ UNCHANGED <<q_list, i_day>>
       ELSE /\ q_list' = <<>> /\ qq' = 0
            /\ pc' = AfterIteration(i_day, ndays)
            /\ i_day' = IF i_day + 1 < ndays THEN i_day + 1 ELSE i_day
    /\ UNCHANGED <<plotVars, reqVars, envVars, nthreads, ndays, df, was_pickled, level_str,
                   df_today, wpc, wfile, launched, finished, read, written, loads, walk, stored>>

\* lines 114-119: the concat and the time column
Merge ==
    /\ pc = "merge"
    /\ df' = AddTime(TryConcat(df, df_list))
    /\ pc' = IF pickle_dir # NoDir THEN "store" ELSE "returned"
    /\ UNCHANGED <<plotVars, reqVars, envVars, nthreads, ndays, code_version, was_pickled,
                   level_str, i_day, q_list, qq, df_today, df_list, procVars, histVars, stored>>

\* lines 129-137: the pickle is written and the call returns
Store ==
    /\ pc = "store"
    /\ LET path == StorePath(pickle_dir, PickledFilename(station, level), code_version)
       IN  /\ disk' = ToPickle(disk, path, df)
           /\ written' = written \cup {Norm(path)}
           /\ stored' = Append(stored, [path |-> Norm(path), data |-> df])
    /\ pc' = "returned"
    /\ UNCHANGED <<plotVars, reqVars, archive, nthreads, ndays, localVars, procVars,
                   launched, results, taken, finished, read, loads, walk>>

\* get_datafile, lines 141-150: the file is looked at and the frame is put
WorkerPutTable(d) ==
    /\ wpc[d] = "running"
    /\ KindOf(archive, wfile[d]) # "corrupt"
    /\ queue' = [queue EXCEPT ![d] = Append(queue[d], DataFile(archive, wfile[d])[1])]
    /\ read' = IF IsFile(archive, wfile[d]) THEN read \cup {wfile[d]} ELSE read
    /\ wpc' = [wpc EXCEPT ![d] = "put1"]
    /\ UNCHANGED <<plotVars, reqVars, envVars, callVars, localVars, wfile, launched, results, taken,
                   finished, written, loads, walk, stored>>

\* get_datafile, line 151: the version is put
WorkerPutVersion(d) ==
    /\ wpc[d] = "put1"
    /\ queue' = [queue EXCEPT ![d] = Append(queue[d], DataFile(archive, wfile[d])[2])]
    /\ wpc' = [wpc EXCEPT ![d] = "done"]
    /\ finished' = Append(finished, d)
    /\ UNCHANGED <<plotVars, reqVars, envVars, callVars, localVars, wfile, launched, results, taken,
                   read, written, loads, walk, stored>>

\* get_datafile, line 142: open_dataset raises on a file it cannot parse; the
\* process ends and nothing is put
WorkerCrash(d) ==
    /\ wpc[d] = "running"
    /\ KindOf(archive, wfile[d]) = "corrupt"
    /\ read' = read \cup {wfile[d]}
    /\ wpc' = [wpc EXCEPT ![d] = "crashed"]
    /\ UNCHANGED <<plotVars, reqVars, envVars, callVars, localVars, queue, wfile, launched, results,
                   taken, finished, written, loads, walk, stored>>

Next ==
    \/ \E n \in 0 .. MaxDays, k \in 1 .. MaxThreads : Call(n, k)
    \/ Lookup
    \/ Launch
    \/ GetTable
    \/ GetVersion
    \/ Merge
    \/ Store
    \/ \E d \in Days : WorkerPutTable(d)
    \/ \E d \in Days : WorkerPutVersion(d)
    \/ \E d \in Days : WorkerCrash(d)

Levels == {1, 2, 3}

\* requests without a cache directory over every archive, and requests with
\* one over the archives whose files are all of one kind
Init ==
    \/ InitOf({"asfs30", "bogus"}, Levels, {NoDir}, FALSE)
    \/ InitOf({"asfs30", "tower", "bogus"}, Levels, {CacheDir, CacheDir \o <<"/">>}, TRUE)

Spec == Init /\ [][Next]_vars

\* the steps of the fetch path of get_flux_data (lines 74-137), and those of
\* the worker of day d
Scheduler == Launch \/ GetTable \/ GetVersion \/ Merge \/ Store

Worker(d) == WorkerPutTable(d) \/ WorkerPutVersion(d) \/ WorkerCrash(d)

\* a call on its fetch path that can take its next step takes it, and so does
\* every started process; whether the caller ever calls again is left open
FairSpec ==
    /\ Spec
    /\ WF_vars(Scheduler)
    /\ \A d \in Days : WF_vars(Worker(d))

\* ------------------------------------------- main of the plotting script
\* The ingestion of plot_asfs_lev1_quicklooks.py: main (lines 159-195) and its
\* worker get_asfs_data.  i_day, df_today, df_list, code_version and df are
\* here the locals of these names in main.

\* the columns of a level-1 file, the same names at every station
AsfsColumns == {"temp", "rh"}

\* xarr_ds.to_dataframe() of the file of day d: one row, indexed by its time
AsfsFrame(d) == [rows |-> << [t |-> DateStr(d)[1], src |-> "present"] >>, cols |-> AsfsColumns]

\* xarr_ds.attrs['version'] of the file of station st and day d
AsfsVersion(st, d) == <<ToString(d), ".", st>>

\* mutant: the columns keep their names
AddSuffixNone(frame, st) == frame

\* data_frame.add_suffix('_{}'.format(curr_station))
AddSuffix(frame, st) == [rows |-> frame.rows, cols |-> {c \o "_" \o st : c \in frame.cols}]

\* get_asfs_data, up to its two puts: <<data_frame, code_version>>, for a
\* file that is there (kind "present") or is not ("absent")
AsfsData(kind, st, d) ==
    IF kind = "present"
    THEN << AddSuffix(AsfsFrame(d), st), AsfsVersion(st, d) >>
    ELSE << EmptyDF, None >>

\* pd.concat([a, b], axis=1): the union of the two indexes, the columns of both
ConcatColumns(a, b) ==
    [rows |-> a.rows \o SelectSeq(b.rows, LAMBDA r : r \notin SeqRange(a.rows)),
     cols |-> a.cols \cup b.cols]

RECURSIVE MergeSleds(_, _, _)
\* lines 187-189: the loop over sleds_to_plot from station i on
MergeSleds(today, dict, i) ==
    IF i > Len(sleds_to_plot) THEN today
    ELSE LET frame == dict[sleds_to_plot[i]]
         IN  MergeSleds(IF DfEmpty(today) THEN frame ELSE ConcatColumns(today, frame),
                        dict, i + 1)

\* mutant: the version read is kept whether it is None or not
KeepVersionAlways(old, cv) == cv

\* if cv!=None: code_version = cv
KeepVersion(old, cv) == IF cv # None THEN cv ELSE old

\* the global code_version before a version was read
Unset == <<"unset">>

\* what main leaves alone: the state of get_flux_data
fluxVars == <<reqVars, envVars, pc, nthreads, was_pickled, level_str, q_list, qq,
              procVars, histVars, stored>>

\* lines 163-180, one turn of the first loop over sleds_to_plot: at the first
\* station the day's frame and dictionaries are made anew; the station gets
\* its Queue and its worker is started
MainLaunch ==
    /\ main_pc = "launch"
    /\ LET st    == sleds_to_plot[istation]
           fresh == istation = 1
       IN  /\ q_dict' = [x \in Sleds |-> IF fresh \/ x = st THEN <<>> ELSE q_dict[x]]
           /\ p_dict' = [x \in Sleds |-> IF x = st THEN "running"
                                         ELSE IF fresh THEN "none" ELSE p_dict[x]]
           /\ df_dict' = IF fresh THEN [x \in Sleds |-> EmptyDF] ELSE df_dict
           /\ df_today' = IF fresh THEN EmptyDF ELSE df_today
           /\ asfs_launched' = Append(asfs_launched, <<i_day + 1, st>>)
    /\ IF istation < Len(sleds_to_plot)
       THEN istation' = istation + 1 /\ main_pc' = "launch"
       ELSE istation' = 1 /\ main_pc' = "get_df"
    /\ UNCHANGED <<asfs_results, fluxVars, ndays, df, code_version, i_day, df_list,
                   asfs_cv>>

\* line 183: df_dict[curr_station] = q_dict[curr_station].get(), blocking
MainGetTable ==
    /\ main_pc = "get_df"
    /\ LET st == sleds_to_plot[istation]
       IN  /\ q_dict[st] # <<>>
           /\ df_dict' = [df_dict EXCEPT ![st] = Head(q_dict[st])]
           /\ q_dict' = [q_dict EXCEPT ![st] = Tail(q_dict[st])]
    /\ main_pc' = "get_cv"
    /\ UNCHANGED <<asfs_launched, asfs_results, fluxVars, ndays, df, code_version, i_day,
                   df_today, df_list, istation, p_dict, asfs_cv>>

\* lines 184-185: cv = q_dict[curr_station].get() and the version kept
MainGetVersion ==
    /\ main_pc = "get_cv"
    /\ LET st == sleds_to_plot[istation]
       IN  /\ q_dict[st] # <<>>
           /\ code_version' = KeepVersion(code_version, Head(q_dict[st]))
           /\ q_dict' = [q_dict EXCEPT ![st] = Tail(q_dict[st])]
           /\ asfs_results' = Append(asfs_results,
                  [day |-> i_day + 1, station |-> st, table |-> df_dict[st],
                   version |-> Head(q_dict[st])])
    /\ IF istation < Len(sleds_to_plot)
       THEN istation' = istation + 1 /\ main_pc' = "get_df"
       ELSE istation' = 1 /\ main_pc' = "merge"
    /\ UNCHANGED <<asfs_launched, fluxVars, ndays, df, i_day, df_today, df_list, p_dict,
                   df_dict, asfs_cv>>

\* lines 187-191: the frames of the stations are put side by side and the
\* day's table is appended; then the next day, or the end of the loop
MainMerge ==
    /\ main_pc = "merge"
    /\ df_today' = MergeSleds(df_today, df_dict, 1)
    /\ df_list' = Append(df_list, df_today')
    /\ IF i_day + 1 < ndays
       THEN i_day' = i_day + 1 /\ main_pc' = "launch"
       ELSE i_day' = i_day /\ main_pc' = "concat"
    /\ UNCHANGED <<asfs_launched, asfs_results, fluxVars, ndays, df, code_version,
                   istation, q_dict, p_dict, df_dict, asfs_cv>>

\* lines 193-195: the tables of the days one below the other, and the time column
MainConcat ==
    /\ main_pc = "concat"
    /\ df' = AddTime(Concat(df_list))
    /\ main_pc' = "done"
    /\ UNCHANGED <<asfs_launched, asfs_results, fluxVars, ndays, code_version, i_day,
                   df_today, df_list, istation, q_dict, p_dict, df_dict, asfs_cv>>

\* get_asfs_data, lines 283-292: the file of the station and of main's day is
\* looked at, once and by this worker only, and the frame is put
AsfsPutTable(st) ==
    /\ p_dict[st] = "running"
    /\ \E kind \in {"absent", "present"} :
           /\ q_dict' = [q_dict EXCEPT ![st] = Append(q_dict[st], AsfsData(kind, st, i_day + 1)[1])]
           /\ asfs_cv' = [asfs_cv EXCEPT ![st] = AsfsData(kind, st, i_day + 1)[2]]
    /\ p_dict' = [p_dict EXCEPT ![st] = "put1"]
    /\ UNCHANGED <<asfs_launched, asfs_results, fluxVars, ndays, df, code_version, i_day,
                   df_today, df_list, main_pc, istation, df_dict>>

\* get_asfs_data, line 293: the version is put
AsfsPutVersion(st) ==
    /\ p_dict[st] = "put1"
    /\ q_dict' = [q_dict EXCEPT ![st] = Append(q_dict[st], asfs_cv[st])]
    /\ p_dict' = [p_dict EXCEPT ![st] = "done"]
    /\ UNCHANGED <<asfs_launched, asfs_results, fluxVars, ndays, df, code_version, i_day,
                   df_today, df_list, main_pc, istation, df_dict, asfs_cv>>

\* get_asfs_data, line 284: open_dataset raises on a file it cannot parse; the
\* process ends and nothing is put
AsfsCrash(st) ==
    /\ p_dict[st] = "running"
    /\ p_dict' = [p_dict EXCEPT ![st] = "crashed"]
    /\ UNCHANGED <<asfs_launched, asfs_results, fluxVars, ndays, df, code_version, i_day,
                   df_today, df_list, main_pc, istation, q_dict, df_dict, asfs_cv>>

MainNext ==
    \/ MainLaunch
    \/ MainGetTable
    \/ MainGetVersion
    \/ MainMerge
    \/ MainConcat
    \/ \E st \in Sleds : AsfsPutTable(st)
    \/ \E st \in Sleds : AsfsPutVersion(st)
    \/ \E st \in Sleds : AsfsCrash(st)

\* main at line 159, for a range of 1 .. MaxDays days; get_flux_data is not called
MainInit ==
    /\ station = "asfs30" /\ level = 1 /\ pickle_dir = NoDir
    /\ archive = [p \in ArchivePaths("asfs30") |-> "absent"] /\ disk = {}
    /\ pc = "idle" /\ nthreads = 1 /\ was_pickled = FALSE /\ level_str = "unbound"
    /\ q_list = <<>> /\ qq = 0
    /\ queue = [d \in Days |-> <<>>]
    /\ wpc = [d \in Days |-> "none"]
    /\ wfile = [d \in Days |-> <<>>]
    /\ launched = <<>> /\ results = <<>> /\ taken = [d \in Days |-> 0] /\ finished = <<>>
    /\ read = {} /\ written = {} /\ loads = <<>> /\ walk = <<>>
    /\ stored = <<>>
    /\ ndays \in Days
    /\ i_day = 0 /\ df_today = EmptyDF /\ df_list = <<>>
    /\ df = EmptyDF /\ code_version = Unset
    /\ main_pc = "launch" /\ istation = 1
    /\ q_dict = [st \in Sleds |-> <<>>]
    /\ p_dict = [st \in Sleds |-> "none"]
    /\ df_dict = [st \in Sleds |-> EmptyDF]
    /\ asfs_cv = [st \in Sleds |-> None]
    /\ asfs_launched = <<>> /\ asfs_results = <<>>

MainSpec == MainInit /\ [][MainNext]_vars

\* ------------------------------------------------------------------ claims
\* the source file of day d, as the archive names it
SourcePath(d) == CurrFile(station, 1, "ingest", d)

Present(d) == IsFile(archive, SourcePath(d))

\* the call missed the cache (or had none) and is past its day loop
LoopOver == pc \in {"merge", "store"} \/ (pc = "returned" /\ ~was_pickled)

Returned == pc = "returned" /\ ~was_pickled

\* C1: a cache-miss run launches one worker per day of the range, in day
\* order and none twice, reads each queue at most twice, and collects the
\* (table, version) of each day once and in chronological order; once the day
\* loop is over there are exactly ndays results, whatever nthreads is.
C1_OneResultPerDay ==
    /\ Len(launched) <= ndays
    /\ \A i \in 1 .. Len(launched) : launched[i] = i
    /\ Len(results) <= Len(launched)
    /\ \A i \in 1 .. Len(results) :
           results[i] = [day     |-> i,
                         table   |-> DataFile(archive, SourcePath(i))[1],
                         version |-> DataFile(archive, SourcePath(i))[2]]
    /\ \A d \in Days : taken[d] <= 2
    /\ LoopOver => /\ Len(launched) = ndays
                   /\ Len(results) = ndays
                   /\ \A d \in 1 .. ndays : taken[d] = 2

C1_Witness ==
    /\ Returned
    /\ nthreads > 1 /\ ndays > nthreads /\ ndays % nthreads # 0
    /\ Len(results) = ndays

RECURSIVE ExpectedRows(_)
\* the rows of the files of days 1 .. n, day by day
ExpectedRows(n) ==
    IF n = 0 THEN <<>>
    ELSE ExpectedRows(n - 1) \o DataFile(archive, SourcePath(n))[1].rows

RECURSIVE ExpectedVersion(_)
\* the version of the latest of the days 1 .. n that has one
ExpectedVersion(n) ==
    IF n = 0 THEN Unknown
    ELSE IF Present(n) THEN Version(archive[SourcePath(n)])
         ELSE ExpectedVersion(n - 1)

ExpectedDf(n) ==
    [rows |-> ExpectedRows(n),
     cols |-> IF ExpectedRows(n) = <<>> THEN {"time"} ELSE {"temp", "time"}]

\* C2: without a cache directory the returned (Dataset, version) is a function
\* of the source files and the range alone: the frames are merged in day
\* order whatever the order in which the workers ended and whatever nthreads.
C2_Deterministic ==
    (Returned /\ pickle_dir = NoDir) =>
        /\ df = ExpectedDf(ndays)
        /\ code_version = ExpectedVersion(ndays)

\* a later day's worker ended before an earlier day's, both files present
C2_Witness ==
    /\ Returned /\ pickle_dir = NoDir
    /\ \E i, j \in 1 .. Len(finished) :
           /\ i < j /\ finished[i] > finished[j]
           /\ Present(finished[i]) /\ Present(finished[j])

\* launched workers whose queue still owes the scheduler a message
Undrained == {d \in Days : wpc[d] # "none" /\ taken[d] < 2}

\* the batch of day d: consecutive groups of nthreads days
BatchOf(d) == (d - 1) \div nthreads

\* C3: at most nthreads launched workers have an undrained queue, and a worker
\* of a later batch is launched only when both messages of every day of the
\* earlier batches have been read.
C3_BoundedBatches ==
    /\ Cardinality(Undrained) <= nthreads
    /\ \A d, e \in Days :
           (wpc[d] # "none" /\ wpc[e] # "none" /\ BatchOf(e) < BatchOf(d)) => taken[e] = 2

C3_Witness ==
    /\ nthreads > 1
    /\ \E d \in Days : BatchOf(d) > 0 /\ wpc[d] = "running"
    /\ taken[1] = 2

\* C4: the join starts only at a multiple of nthreads or at the last day, no
\* queue is carried over a multiple of nthreads, and once the day loop is over
\* every launched worker has been joined and the frame of every present day,
\* those of the final partial batch included, is in the list that is merged.
C4_LastBatchJoined ==
    /\ pc \in {"get_df", "get_cv"} =>
           ((i_day + 1) % nthreads = 0 \/ i_day + 1 = ndays)
    /\ pc = "loop" => Len(q_list) = i_day % nthreads
    /\ LoopOver =>
           /\ q_list = <<>>
           /\ \A i \in 1 .. Len(launched) : taken[launched[i]] = 2
           /\ \A d \in 1 .. ndays : Present(d) =>
                  \E i \in 1 .. Len(df_list) : df_list[i] = DataFile(archive, SourcePath(d))[1]
    /\ Returned => \A d \in 1 .. ndays : Present(d) =>
                       \E i \in 1 .. Len(df.rows) : df.rows[i].t = FileDate(SourcePath(d))

\* a final batch shorter than nthreads whose last day has a file
C4_Witness ==
    /\ Returned
    /\ ndays % nthreads # 0
    /\ Present(ndays)
    /\ df.rows[Len(df.rows)].t = FileDate(SourcePath(ndays))

\* C5: the version a cache-miss run returns is the version of the last day,
\* in day order, whose file has one.
C5_LastWriteWins ==
    Returned => \A d \in 1 .. ndays :
        (Present(d) /\ \A e \in (d + 1) .. ndays : ~Present(e)) =>
            code_version = Version(archive[SourcePath(d)])

\* two versions, then a day without one: the later of the two is returned
C5_Witness ==
    /\ Returned
    /\ \E d \in 1 .. ndays :
           /\ d + 2 <= ndays
           /\ Present(d) /\ Present(d + 1) /\ ~Present(d + 2)
           /\ Version(archive[SourcePath(d)]) # Version(archive[SourcePath(d + 1)])
           /\ code_version = Version(archive[SourcePath(d + 1)])

RECURSIVE PresentDays(_)
\* the days of 1 .. n whose file exists, in order
PresentDays(n) ==
    IF n = 0 THEN <<>>
    ELSE IF Present(n) THEN Append(PresentDays(n - 1), n) ELSE PresentDays(n - 1)

\* C6: the worker of an absent file publishes an empty table and None and does
\* not end without publishing, and the Dataset a cache-miss run returns holds
\* one row per day whose file exists, in day order, and none for the others.
C6_MissingFileSkipped ==
    /\ \A i \in 1 .. Len(results) :
           ~Present(results[i].day) =>
               results[i].table = EmptyDF /\ results[i].version = None
    /\ \A d \in Days : wpc[d] = "crashed" => Present(d)
    /\ Returned =>
           /\ Len(df.rows) = Len(PresentDays(ndays))
           /\ \A i \in 1 .. Len(df.rows) :
                  df.rows[i].t = FileDate(SourcePath(PresentDays(ndays)[i]))

\* files for the first and the third day only
C6_Witness ==
    /\ Returned
    /\ \E d \in 1 .. ndays :
           /\ d + 2 <= ndays
           /\ Present(d) /\ ~Present(d + 1) /\ Present(d + 2)
    /\ Len(df.rows) < ndays

AllAbsent(n) == \A d \in 1 .. n : ~Present(d)

\* C7 as stated: with every file of the range absent the run returns an empty
\* Dataset and a null version tag.
C7_NullVersion ==
    (Returned /\ ndays > 0 /\ AllAbsent(ndays)) => (DfEmpty(df) /\ code_version = None)

\* C7, amended: with every file of the range absent the run returns a Dataset
\* without rows and the version tag "?" the call starts with; and a call
\* raises only before its first worker is launched, never for a file that is
\* not there.
C7_EmptyAndUnknown ==
    /\ (Returned /\ AllAbsent(ndays)) =>
           (DfEmpty(df) /\ df.rows = <<>> /\ code_version = Unknown)
    /\ pc = "raised" => (launched = <<>> /\ read = {})

C7_Witness ==
    /\ Returned /\ ndays > 1 /\ AllAbsent(ndays)
    /\ Len(results) = ndays

KeyNow == PickledFilename(station, level)

\* the search of the cache directory of the current call is over
Searched == ValidStation(station) /\ pickle_dir # NoDir /\ pc \notin {"idle", "lookup"}

\* the paths of the files the search met whose name holds the key, in the
\* order of the traversal: directory by directory, each in listing order
RECURSIVE MatchesIn(_, _, _)
MatchesIn(listing, dir, i) ==
    IF i > Len(listing) THEN <<>>
    ELSE IF DirName(listing[i].path) = dir /\ Contains(BaseName(listing[i].path), KeyNow)
         THEN <<listing[i].path>> \o MatchesIn(listing, dir, i + 1)
         ELSE MatchesIn(listing, dir, i + 1)

RECURSIVE MatchesUnder(_, _)
MatchesUnder(listing, dirs) ==
    IF dirs = <<>> THEN <<>>
    ELSE MatchesIn(listing, Head(dirs), 1) \o MatchesUnder(listing, Tail(dirs))

Matches == MatchesUnder(walk, WalkDirs(walk, pickle_dir))

\* C8: a call whose search met a file with the key in its name launches no
\* worker, reads no source file and writes no cache file; when it loaded a
\* pickle it returns at once, and the Dataset it returns is the one read from
\* the path the search built, whatever the source files hold.
C8_HitShortCircuits ==
    /\ (Searched /\ Matches # <<>>) =>
           /\ pc \in {"returned", "raised"}
           /\ launched = <<>> /\ results = <<>>
           /\ \A d \in Days : wpc[d] = "none" /\ queue[d] = <<>>
           /\ read = {} /\ written = {}
    /\ was_pickled =>
           /\ pc = "returned"
           /\ launched = <<>> /\ read = {} /\ written = {}
           /\ loads # <<>>
           /\ \E e \in disk : /\ e.path = loads[Len(loads)]
                              /\ Contains(e.path, KeyNow)
                              /\ e.data = df

\* a hit whose Dataset is not what the source files of the range would give
C8_Witness ==
    /\ pc = "returned" /\ was_pickled
    /\ ndays > 0 /\ \A d \in 1 .. ndays : Present(d)
    /\ df.rows # ExpectedRows(ndays)
    /\ launched = <<>>

\* C9 as stated: once a cache-miss call has stored its Dataset, the search of
\* a later call with the same pickle_dir and key loads that entry and the call
\* returns a Dataset equal to the one stored.
C9_RoundTrip ==
    (stored # <<>> /\ written = {} /\ Searched) =>
        /\ pc = "returned" /\ was_pickled
        /\ df = stored[Len(stored)].data

\* C10 as stated: the search loads the first file of the traversal whose name
\* holds the key and no other, and returns its Dataset and the version in its
\* name; with no such file it is a miss.
C10_FirstMatchWins ==
    Searched =>
        IF Matches = <<>>
        THEN ~was_pickled /\ loads = <<>> /\ pc # "raised"
        ELSE /\ pc = "returned" /\ was_pickled
             /\ loads = <<Matches[1]>>
             /\ df = DataAt(walk, Matches[1])
             /\ code_version = ParsedVersion(Matches[1])

\* the path the store of the current call writes, as the file system sees it
StoreTarget == Norm(StorePath(pickle_dir, KeyNow, code_version))

\* C11: a call that missed the cache of a given cache directory writes one
\* file and no more, at the step that follows the merge of the frames of every
\* day of the range; the file's name is the key, "_", the first three
\* characters of the version the call returns, and ".pkl", and it holds the
\* Dataset the call returns.  Without a cache directory no cache file is
\* searched, loaded or written.
C11_StoreOnceAfterMerge ==
    /\ [](/\ pickle_dir = NoDir =>
                 /\ written = {} /\ loads = <<>> /\ walk = <<>> /\ stored = <<>>
                 /\ pc \notin {"lookup", "store"}
          /\ (pc # "returned" \/ was_pickled) => written = {}
          /\ pc = "store" =>
                 /\ Len(results) = ndays
                 /\ df = AddTime(TryConcat(EmptyDF, df_list))
          /\ (Returned /\ pickle_dir # NoDir) =>
                 /\ written = {StoreTarget}
                 /\ BaseName(StoreTarget) =
                        KeyNow \o <<"_">> \o Slice03(ExpectedVersion(ndays)) \o <<".", "pkl">>
                 /\ [path |-> StoreTarget, data |-> df] \in disk
                 /\ stored # <<>> /\ stored[Len(stored)] = [path |-> StoreTarget, data |-> df])
    /\ [][/\ Len(stored') <= Len(stored) + 1
          /\ (stored' # stored \/ disk' # disk) =>
                 (pc = "store" /\ pc' = "returned" /\ Len(stored') = Len(stored) + 1)]_vars

\* a store of the frames of several days under a version longer than three
\* characters, beside an older file
C11_Witness ==
    /\ Returned /\ pickle_dir # NoDir
    /\ ndays > 1 /\ Len(df.rows) = ndays
    /\ code_version = VersionB
    /\ written # {}
    /\ Cardinality(disk) > 1

\* the search of the current call met a file with the key in its name that
\* read_pickle cannot load: the path built for it (line 64) is no file
LoadFailed == Searched /\ PickleLookup(walk, pickle_dir, KeyNow).status = "raise"

\* C12 as stated: a load that fails during the search is a cache miss: the
\* call does not raise, it goes on to fetch and merge the source files.
C12_LoadFailureIsMiss ==
    LoadFailed => (pc # "raised" /\ ~was_pickled)

\* the station names the spec recognizes
Recognized == {"tower", "asfs30", "asfs40", "asfs50"}

\* C13: a call for a station outside the recognized set raises at once: it
\* never searches the cache directory, launches no worker, and no source file
\* is read and no cache file loaded or written.
C13_InvalidStationAborts ==
    station \notin Recognized =>
        /\ pc \in {"idle", "raised"}
        /\ launched = <<>> /\ results = <<>>
        /\ \A d \in Days : wpc[d] = "none" /\ queue[d] = <<>>
        /\ read = {} /\ walk = <<>> /\ loads = <<>>
        /\ written = {} /\ stored = <<>>
        /\ ~was_pickled /\ df = EmptyDF

\* the call raised although the cache directory holds a file for its key
C13_Witness ==
    /\ station \notin Recognized
    /\ pc = "raised" /\ ndays > 0
    /\ pickle_dir # NoDir
    /\ \E e \in disk : Contains(BaseName(e.path), KeyNow) /\ DirName(e.path) = CacheDir

\* the scheduler is in the loop over q_list, at one of its two gets
Joining == pc \in {"get_df", "get_cv"}

\* C14 as stated: when the file of a day of the batch exists but cannot be
\* parsed, its worker still publishes on its queue, so the join of that batch
\* comes to an end.
C14_CorruptNoHang ==
    (Joining /\ \E i \in 1 .. Len(q_list) : KindOf(archive, wfile[q_list[i]]) = "corrupt")
        ~> ~Joining

\* no file of the range is one its worker cannot parse: every worker of the
\* call puts its two messages
AllPublish == \A d \in 1 .. ndays : KindOf(archive, SourcePath(d)) # "corrupt"

\* C15: a call that has launched a worker, over a range of one day or more and
\* with any nthreads, whose workers all publish their two messages, passes
\* every join and returns.
C15_NoBarrierDeadlock ==
    (pc \in {"loop", "get_df", "get_cv"} /\ launched # <<>> /\ AllPublish) ~> Returned

\* the run of one day with nthreads = 1 has returned
C15_Witness ==
    /\ Returned
    /\ ndays = 1 /\ nthreads = 1
    /\ launched = <<1>> /\ taken[1] = 2 /\ wpc[1] = "done"

\* the level names of the spec
LevelName(l) == IF l = 1 THEN "ingest" ELSE IF l = 2 THEN "product" ELSE "archive"

\* C16 as stated: for a recognized station and a level of 1, 2 or 3 the fetch
\* path builds the path of every day's file without failing, with the level
\* name ingest, product or archive of its level.
C16_PathTotal ==
    (station \in Recognized /\ level \in {1, 2, 3}) =>
        /\ (pc = "raised" => LoadFailed)
        /\ \A d \in Days :
               wpc[d] # "none" => wfile[d] = CurrFile(station, level, LevelName(level), d)

\* main has put the frames of a day side by side: df_dict holds the frames of
\* that day and the last entry of df_list is its merged table
DayMerged ==
    \/ main_pc = "launch" /\ istation = 1 /\ df_list # <<>>
    \/ main_pc \in {"concat", "done"}

\* the stations whose frame of the day has data
Contributing == {st \in Sleds : ~DfEmpty(df_dict[st])}

Puts(d) == IF wpc[d] = "put1" THEN 1 ELSE IF wpc[d] = "done" THEN 2 ELSE 0

\* the two messages of the worker of day d: its table, then its version tag
Messages(d) == << DataFile(archive, wfile[d])[1], DataFile(archive, wfile[d])[2] >>

\* C18: each day of a batch has a queue of its own; its worker puts at most
\* two messages on it, the table and then the version tag, and nothing else
\* is ever on it; the scheduler takes the table of a queue before its version
\* tag, takes two messages from each queue and is never at a get on a queue
\* it has taken two messages from.
C18_ChannelProtocol ==
    /\ \A i, j \in 1 .. Len(q_list) : i # j => q_list[i] # q_list[j]
    /\ \A d \in Days :
           /\ taken[d] <= Puts(d) /\ Puts(d) <= 2
           /\ queue[d] = SubSeq(Messages(d), taken[d] + 1, Puts(d))
           /\ (wpc[d] = "none" \/ wpc[d] = "crashed") => (queue[d] = <<>> /\ taken[d] = 0)
    /\ pc = "get_df" => taken[QueueAt(q_list, qq)] = 0
    /\ pc = "get_cv" =>
           /\ taken[QueueAt(q_list, qq)] = 1
           /\ df_today = Messages(QueueAt(q_list, qq))[1]
    /\ Joining => \A i \in 1 .. Len(q_list) :
                      /\ i < qq => taken[q_list[i]] = 2
                      /\ i > qq => taken[q_list[i]] = 0
    /\ ~Joining => \A d \in Days : taken[d] \in {0, 2}
    /\ \A i \in 1 .. Len(results) :
           /\ results[i].table = Messages(results[i].day)[1]
           /\ results[i].version = Messages(results[i].day)[2]

\* the scheduler holds the table of the first day of a batch and is about to
\* take its version tag, while the queue of the second day holds both of its
\* messages, untouched
C18_Witness ==
    /\ pc = "get_cv" /\ Len(q_list) > 1 /\ qq = 1
    /\ taken[q_list[1]] = 1 /\ Len(queue[q_list[1]]) = 1
    /\ taken[q_list[2]] = 0 /\ Len(queue[q_list[2]]) = 2
    /\ ~DfEmpty(df_today)

\* the worker of day d was started and has put nothing on its queue
Silent(d) == wpc[d] \in {"running", "crashed"}

\* C19: as long as a started worker has put nothing on its queue the call is
\* inside its day loop, with no message taken from that queue, no worker of a
\* later batch started, no result of that day or of a later one, nothing
\* merged and no cache file written, and it has not returned; a worker that
\* ended without a put stays so, so the call is then blocked for good.
C19_NoTimeout ==
    /\ [](\A d \in Days : Silent(d) =>
              /\ pc \in {"loop", "get_df", "get_cv"}
              /\ taken[d] = 0 /\ queue[d] = <<>>
              /\ \A e \in Days : wpc[e] # "none" => BatchOf(e) <= BatchOf(d)
              /\ Len(results) < d
              /\ df = EmptyDF /\ written = {})
    /\ [][\A d \in Days : wpc[d] = "crashed" =>
              /\ wpc'[d] = "crashed"
              /\ pc' \in {"loop", "get_df", "get_cv"}
              /\ written' = {} /\ disk' = disk]_vars

\* the worker of the second day of a batch ended without a put: the scheduler
\* has read the first day's queue and waits at the second, the third day's
\* worker is not started
C19_Witness ==
    /\ nthreads = 2 /\ ndays = 3
    /\ wpc[2] = "crashed" /\ taken[1] = 2
    /\ pc = "get_df" /\ QueueAt(q_list, qq) = 2
    /\ wpc[3] = "none"

\* C20: a step that changes the files on disk is the store of a call; it
\* leaves one file at its target path, holding the Dataset of the call, and
\* every file at another path, whatever its name, is after the step what it
\* was before: none is deleted, none is rewritten.
C20_StoreNeverPrunes ==
    [][disk' # disk =>
          /\ pc = "store"
          /\ \A e \in disk : e.path # StoreTarget => e \in disk'
          /\ \A e \in disk' : e.path # StoreTarget => e \in disk
          /\ {e \in disk' : e.path = StoreTarget} = {[path |-> StoreTarget, data |-> df]}]_vars

\* a store into a cache directory that held a file before, which is still there
C20_Witness ==
    /\ Returned /\ written # {}
    /\ \E e \in disk : /\ e.path \notin written
                       /\ DirName(e.path) = CacheDir
                       /\ e.data = OldDf("4")
    /\ \E e \in disk : e.path \in written /\ e.data = df

NSleds == Len(sleds_to_plot)

\* the n-th (day, station) of main, day by day and within a day in the order
\* of sleds_to_plot
UnitOf(n) == << ((n - 1) \div NSleds) + 1, sleds_to_plot[((n - 1) % NSleds) + 1] >>

RECURSIVE LastTag(_)
\* the last version tag that is not None among the first n results
LastTag(n) ==
    IF n = 0 THEN Unset
    ELSE IF asfs_results[n].version # None THEN asfs_results[n].version
         ELSE LastTag(n - 1)

\* the columns the stations of day d brought
ColumnsOfDay(d) ==
    UNION {asfs_results[n].table.cols :
               n \in {m \in 1 .. Len(asfs_results) : asfs_results[m].day = d}}

\* C21: main starts one worker per station and day, day by day and in station
\* order; it reads the two messages of every station of a day, in station
\* order and after the last worker of the day was started, before it starts
\* a worker of the next day; the version it keeps is the last one read that
\* is not None; and it appends one merged table per day, so that once the
\* loop is over df_list has one entry per day of the range, in day order.
C21_DayBatches ==
    /\ \A n \in 1 .. Len(asfs_launched) : asfs_launched[n] = UnitOf(n)
    /\ \A n \in 1 .. Len(asfs_results) :
           LET r == asfs_results[n]
           IN  /\ <<r.day, r.station>> = UnitOf(n)
               /\ \/ r.table = EmptyDF /\ r.version = None
                  \/ /\ r.table = AddSuffix(AsfsFrame(r.day), r.station)
                     /\ r.version = AsfsVersion(r.station, r.day)
    /\ Len(asfs_results) <= Len(asfs_launched)
    /\ Len(asfs_launched) <= NSleds * ndays
    /\ asfs_launched # <<>> =>
           Len(asfs_results) >= NSleds * ((Len(asfs_launched) - 1) \div NSleds)
    /\ asfs_results # <<>> =>
           Len(asfs_launched) >= NSleds * (((Len(asfs_results) - 1) \div NSleds) + 1)
    /\ code_version = LastTag(Len(asfs_results))
    /\ Len(df_list) = IF main_pc = "merge" THEN (Len(asfs_results) \div NSleds) - 1
                      ELSE Len(asfs_results) \div NSleds
    /\ \A d \in 1 .. Len(df_list) :
           /\ df_list[d].cols = ColumnsOfDay(d)
           /\ \A i \in 1 .. Len(df_list[d].rows) : df_list[d].rows[i].t = DateStr(d)[1]
           /\ Len(df_list[d].rows) = IF ColumnsOfDay(d) = {} THEN 0 ELSE 1
    /\ main_pc \in {"concat", "done"} =>
           /\ Len(df_list) = ndays
           /\ Len(asfs_launched) = NSleds * ndays
           /\ Len(asfs_results) = NSleds * ndays

\* a range of several days is done; the last file read was not there, and the
\* version kept is that of a file read before it
C21_Witness ==
    /\ main_pc = "done" /\ ndays > 1
    /\ asfs_results[Len(asfs_results)].version = None
    /\ code_version # Unset
    /\ \E d \in 1 .. ndays : DfEmpty(df_list[d])
    /\ \E d \in 1 .. ndays : Cardinality(df_list[d].cols) > Cardinality(AsfsColumns)

\* the cache directory has no directory below it
Flat == \A e \in disk : DirName(e.path) \in {CacheDir, <<>>}

\* a store happens only in a call whose search met no file with the key
StoreOnlyOnMiss == pc = "store" => Matches = <<>>

\* a cache-miss call that returns has stored one entry, empty Dataset or not
MissStores == (Returned /\ pickle_dir # NoDir) => (written = {StoreTarget} /\ Len(stored) = 1)

\* once a call has stored, the calls after it are hits that launch no worker
LaterRunsHit ==
    (stored # <<>> /\ written = {} /\ Searched) =>
        (pc = "returned" /\ was_pickled /\ launched = <<>> /\ Len(stored) = 1)

\* C22 as stated: over the calls on one flat cache directory, a store happens
\* only in a call whose search found no file name with the key, every
\* cache-miss call that returns has stored one entry, no second file is
\* written for the key, and after one such call every later call is a hit
\* that launches no worker.
C22_OneEntryPerKey ==
    Flat => (StoreOnlyOnMiss /\ MissStores /\ Len(stored) <= 1 /\ LaterRunsHit)

\* what a search of the directory as listed gives for the key of the request:
\* a function of the cache directory, pickle_dir, station and level alone
HitResult(listing) == PickleLookup(listing, pickle_dir, KeyNow)

\* C23: a call that loaded a pickle returns at once, and the Dataset and the
\* version tag it returns are those the search of the cache directory gives
\* for the key, the same for every range of days and every nthreads.
C23_HitIgnoresRange ==
    was_pickled =>
        /\ pc = "returned"
        /\ HitResult(walk).status = "hit"
        /\ df = HitResult(walk).df
        /\ code_version = HitResult(walk).code_version
        /\ \A n \in 0 .. MaxDays, k \in 1 .. MaxThreads :
               AfterSearch(TRUE, n) = "returned"

\* a hit of a call over the longest range with several workers allowed
C23_Witness ==
    /\ pc = "returned" /\ was_pickled
    /\ ndays = MaxDays /\ nthreads = MaxThreads
    /\ Len(df.rows) < ndays
    /\ loads # <<>>

\* the tag a store put into a file name: what stands between the last "_"
\* and the ".pkl" that ends it
TagInName(path) == RPartition(RPartition(path, "_")[3], ".")[1]

\* C24 as stated: a call that loads the entry an earlier call stored returns
\* as version tag the first three characters of the tag of that call, the tag
\* in the file name.
C24_TagRoundTrip ==
    (was_pickled /\ stored # <<>> /\ loads[Len(loads)] = stored[Len(stored)].path) =>
        code_version = TagInName(stored[Len(stored)].path)

====
